---- MODULE Spec2Model ----
(***************************************************************************)
(* Monte Carlo Texas Hold'em equity simulator                              *)
(* (monte_carlo_poker_equity.py): the 7-card hand evaluator, the hand      *)
(* comparator and the simulate_equity loop driven by the process-wide      *)
(* random module.                                                          *)
(*                                                                         *)
(* A card is an integer 0..51 = suit*13 + rank index; a rank is 2..14.     *)
(* An evaluation is <<category, tiebreak>> with tiebreak a sequence of     *)
(* ranks.                                                                  *)
(***************************************************************************)
EXTENDS Integers, Sequences, FiniteSets, TLC

VARIABLES
    pc,             \* position of the simulate_equity call
    req,            \* arguments of the call: hero, board, n_opponents, iterations, seed
    rng,            \* state of the process-wide generator of the random module
    rng0,           \* rng as it was when the current call was entered
    base_deck,      \* simulate_equity: base_deck
    need_cards,     \* simulate_equity: need_cards
    wins, ties, losses,
    equity_shares,  \* in units of 1/ShareUnit
    done,           \* completed iterations of the for loop
    draw,           \* this iteration's random.sample
    hero_eval,      \* this iteration's evaluate_7 of the hero
    best_cmp, n_best,
    oi,             \* number of opponents compared in this iteration
    outcome,        \* branch taken by the last accumulation: "win", "tie", "loss"
    error,          \* exception that ended the call, or "none"
    result,         \* returned (win_rate, equity, wins, ties, losses), or "none"
    ref,            \* one earlier seeded call kept for comparison; later: a call
                    \* has been finished since
    cards,          \* evaluator harness: the 7 cards handed to evaluate_7
    ev,             \* evaluator harness: what evaluate_7 returned
    entry,          \* the program this process runs: "main", "ai", or "none"
                    \* when simulate_equity is looked at on its own
    cmp_in,         \* comparator harness: three evaluations
    cmp_out,        \* comparator harness: compare_hands of every ordered pair
    tin,            \* notation harness: the text or the cards handed in
    tout,           \* notation harness: what parsing and formatting returned
    report,         \* main: the confidence intervals it prints
    other           \* a second simulate_equity call running in another thread

vars == <<pc, req, rng, rng0, base_deck, need_cards, wins, ties, losses,
          equity_shares, done, draw, hero_eval, best_cmp, n_best, oi,
          outcome, error, result, ref, cards, ev,
          entry, cmp_in, cmp_out, tin, tout, report, other>>

otherVars == <<entry, cmp_in, cmp_out, tin, tout, report, other>>

simVars == <<pc, req, rng, rng0, base_deck, need_cards, wins, ties, losses,
             equity_shares, done, draw, hero_eval, best_cmp, n_best, oi,
             outcome, error, result, ref>>

None == "None"

\* seed = None
NoSeed == -1

\* values of variables that hold nothing yet
NoCall == [hero |-> <<>>, board |-> <<>>, n_opponents |-> 0, iterations |-> 0,
           seed |-> NoSeed]

NoEval == <<-2, <<>>>>

NoResult == [win_rate |-> <<0, 1>>, equity |-> <<0, 1>>,
             wins |-> 0, ties |-> 0, losses |-> 0]

NoRef == [req |-> NoCall, result |-> NoResult, later |-> FALSE]

NoCmp == <<NoEval, NoEval, NoEval>>

NoText == [kind |-> "none", text |-> <<>>, cards |-> <<>>]

NoReport == [win |-> <<0, 0>>, eq |-> <<0, 0>>]

NoOther == [pc |-> "idle", req |-> NoCall, done |-> 0]

NoOut == [op |-> "none", err |-> None, tok |-> <<>>, cards |-> <<>>,
          text |-> <<>>]

----------------------------------------------------------------------------
(* Generic helpers                                                         *)

Max(S) == CHOOSE x \in S : \A y \in S : x >= y

Range(s) == {s[i] : i \in 1..Len(s)}

\* the ranks of S, highest first (for r in range(14, 1, -1) if ...)
RECURSIVE SeqDesc(_)
SeqDesc(S) == IF S = {} THEN <<>>
              ELSE LET m == Max(S) IN <<m>> \o SeqDesc(S \ {m})

\* s[:n]
\* s[:n + 1]
Take_one_more(s, n) == SubSeq(s, 1, IF Len(s) < n + 1 THEN Len(s) ELSE n + 1)

\* s[:n]
Take(s, n) == SubSeq(s, 1, IF Len(s) < n THEN Len(s) ELSE n)

\* s[n:]
Drop(s, n) == IF n >= Len(s) THEN <<>> ELSE SubSeq(s, n + 1, Len(s))

Pow2(r) == 2 ^ r

BitSet(mask, r) == (mask \div Pow2(r)) % 2 = 1

\* mask & need, over the bit positions 0..14 the evaluator uses
BitAnd(mask, need) ==
    LET RECURSIVE Acc(_)
        Acc(r) == IF r > 14 THEN 0
                  ELSE (IF BitSet(mask, r) /\ BitSet(need, r) THEN Pow2(r) ELSE 0)
                       + Acc(r + 1)
    IN Acc(0)

\* the OR of 1 << r over the ranks of S (distinct bits, so a sum)
MaskOf(S) ==
    LET RECURSIVE Acc(_)
        Acc(T) == IF T = {} THEN 0
                  ELSE LET r == CHOOSE x \in T : TRUE IN Pow2(r) + Acc(T \ {r})
    IN Acc(S)

----------------------------------------------------------------------------
(* Card model                                                              *)

\* int_to_rank that folds the ranks modulo 12
int_to_rank_mod12(card) == (card % 12) + 2

int_to_rank(card) == (card % 13) + 2

int_to_suit(card) == card \div 13

\* deck_without with the exclusion forgotten: all 52 cards
deck_without_nothing(exclude) ==
    LET RECURSIVE Acc(_)
        Acc(c) == IF c > 51 THEN <<>> ELSE <<c>> \o Acc(c + 1)
    IN  Acc(0)

\* deck_without that excludes the first known card only
deck_without_first_only(exclude) ==
    LET RECURSIVE Acc(_)
        Acc(c) == IF c > 51 THEN <<>>
                  ELSE (IF exclude = <<>> \/ c # exclude[1] THEN <<c>> ELSE <<>>)
                       \o Acc(c + 1)
    IN  Acc(0)

\* [c for c in range(52) if c not in excl]
deck_without(exclude) ==
    LET excl == Range(exclude)
        RECURSIVE Acc(_)
        Acc(c) == IF c > 51 THEN <<>>
                  ELSE (IF c \notin excl THEN <<c>> ELSE <<>>) \o Acc(c + 1)
    IN  Acc(0)

----------------------------------------------------------------------------
(* Card notation.  A text is a sequence of one-character strings.          *)

RANKS == <<"2", "3", "4", "5", "6", "7", "8", "9", "T", "J", "Q", "K", "A">>

SUITS == <<"c", "d", "h", "s">>

LowerCase == <<"a", "b", "c", "d", "e", "f", "g", "h", "i", "j", "k", "l", "m",
               "n", "o", "p", "q", "r", "s", "t", "u", "v", "w", "x", "y", "z">>

UpperCase == <<"A", "B", "C", "D", "E", "F", "G", "H", "I", "J", "K", "L", "M",
               "N", "O", "P", "Q", "R", "S", "T", "U", "V", "W", "X", "Y", "Z">>

\* the characters str.strip() and str.split() treat as white space
Whitespace == {" ", "\t"}

\* str.upper() and str.lower() of one character
upper(c) ==
    IF \E i \in 1..26 : LowerCase[i] = c
    THEN UpperCase[CHOOSE i \in 1..26 : LowerCase[i] = c] ELSE c

lower(c) ==
    IF \E i \in 1..26 : UpperCase[i] = c
    THEN LowerCase[CHOOSE i \in 1..26 : UpperCase[i] = c] ELSE c

RECURSIVE lstrip(_)
lstrip(t) == IF t # <<>> /\ Head(t) \in Whitespace THEN lstrip(Tail(t)) ELSE t

RECURSIVE rstrip(_)
rstrip(t) ==
    IF t # <<>> /\ t[Len(t)] \in Whitespace
    THEN rstrip(SubSeq(t, 1, Len(t) - 1)) ELSE t

\* str.strip()
strip(t) == rstrip(lstrip(t))

\* str.index(c) of a one-character c, 0-based; -1 stands for its ValueError
index(str, c) ==
    IF \E i \in 1..Len(str) : str[i] = c
    THEN (CHOOSE i \in 1..Len(str) :
              str[i] = c /\ \A j \in 1..(i - 1) : str[j] # c) - 1
    ELSE -1

\* what a raising card_str_to_int leaves: ValueError("Invalid card: <tok>")
ValueError(tok) == [ok |-> FALSE, val |-> -1, tok |-> tok]

\* card_str_to_int that does not lower-case the suit character
card_str_to_int_exact_suit(card) ==
    LET c == strip(card)
    IN  IF Len(c) # 2 THEN ValueError(c)
        ELSE LET r_idx == index(RANKS, upper(c[1]))
                 s_idx == index(SUITS, c[2])
             IN  IF r_idx = -1 \/ s_idx = -1 THEN ValueError(c)
                 ELSE [ok |-> TRUE, val |-> s_idx * 13 + r_idx, tok |-> <<>>]

card_str_to_int(card) ==
    LET c == strip(card)
    IN  IF Len(c) # 2 THEN ValueError(c)
        ELSE LET r_idx == index(RANKS, upper(c[1]))
                 s_idx == index(SUITS, lower(c[2]))
             IN  IF r_idx = -1 \/ s_idx = -1 THEN ValueError(c)
                 ELSE [ok |-> TRUE, val |-> s_idx * 13 + r_idx, tok |-> <<>>]

\* str.replace(a, b) for one-character a and b
replace(t, a, b) == [i \in 1..Len(t) |-> IF t[i] = a THEN b ELSE t[i]]

\* str.split(): the maximal runs of characters that are not white space
RECURSIVE split(_)
split(t) ==
    LET u == lstrip(t)
        n == IF \E i \in 1..Len(u) : u[i] \in Whitespace
             THEN (CHOOSE i \in 1..Len(u) :
                       /\ u[i] \in Whitespace
                       /\ \A j \in 1..(i - 1) : u[j] \notin Whitespace) - 1
             ELSE Len(u)
    IN  IF u = <<>> THEN <<>>
        ELSE <<SubSeq(u, 1, n)>> \o split(SubSeq(u, n + 1, Len(u)))

\* parse_cards_str that splits on white space only
parse_cards_str_no_commas(cards_str) ==
    LET toks == [i \in 1..Len(split(cards_str)) |-> split(cards_str)[i]]
        res == [i \in 1..Len(toks) |-> card_str_to_int(toks[i])]
        bad == {i \in 1..Len(toks) : ~res[i].ok}
    IN  IF bad # {}
        THEN [ok |-> FALSE, cards |-> <<>>,
              tok |-> res[CHOOSE i \in bad : \A j \in bad : i <= j].tok]
        ELSE [ok |-> TRUE, cards |-> [i \in 1..Len(toks) |-> res[i].val],
              tok |-> <<>>]

\* parse_cards_str: the list comprehension converts the tokens in order and
\* the first ValueError leaves it, so no list is returned
parse_cards_str(cards_str) ==
    LET toks == [t \in 1..Len(split(replace(cards_str, ",", " "))) |->
                     split(replace(cards_str, ",", " "))[t]]
        res == [i \in 1..Len(toks) |-> card_str_to_int(toks[i])]
        bad == {i \in 1..Len(toks) : ~res[i].ok}
    IN  IF bad # {}
        THEN [ok |-> FALSE, cards |-> <<>>,
              tok |-> res[CHOOSE i \in bad : \A j \in bad : i <= j].tok]
        ELSE [ok |-> TRUE, cards |-> [i \in 1..Len(toks) |-> res[i].val],
              tok |-> <<>>]

\* " ".join(out)
RECURSIVE join(_)
join(out) ==
    IF out = <<>> THEN <<>>
    ELSE IF Len(out) = 1 THEN out[1]
    ELSE out[1] \o <<" ">> \o join(Tail(out))

\* format_cards that writes the suit before the rank
format_cards_suit_first(cs) ==
    join([i \in 1..Len(cs) |->
              <<SUITS[(cs[i] \div 13) + 1], RANKS[(cs[i] % 13) + 1]>>])

format_cards(cs) ==
    join([i \in 1..Len(cs) |->
              <<RANKS[(cs[i] % 13) + 1], SUITS[(cs[i] \div 13) + 1]>>])

----------------------------------------------------------------------------
(* Hand evaluator                                                          *)

\* straight_high_from_ranks_mask with the scan stopped at 6-high: the wheel
\* is missed
straight_high_no_wheel(mask) ==
    LET need(high) == Pow2(high) + Pow2(high - 1) + Pow2(high - 2)
                      + Pow2(high - 3) + Pow2(high - 4)
        RECURSIVE Scan(_)
        Scan(high) == IF high < 6 THEN 0
                      ELSE IF BitAnd(mask, need(high)) = need(high) THEN high
                      ELSE Scan(high - 1)
    IN  Scan(14)

\* a scan that starts at the 5-high straight and goes up
straight_high_lowest(mask) ==
    LET need(high) == Pow2(high) + Pow2(high - 1) + Pow2(high - 2)
                      + Pow2(high - 3) + Pow2(high - 4)
        RECURSIVE Scan(_)
        Scan(high) == IF high > 14 THEN 0
                      ELSE IF BitAnd(mask, need(high)) = need(high) THEN high
                      ELSE Scan(high + 1)
    IN  Scan(5)

straight_high_from_ranks_mask(mask) ==
    LET need(high) == Pow2(high) + Pow2(high - 1) + Pow2(high - 2)
                      + Pow2(high - 3) + Pow2(high - 4)
        RECURSIVE Scan(_)
        Scan(high) == IF high < 5 THEN 0
                      ELSE IF BitAnd(mask, need(high)) = need(high) THEN high
                      ELSE Scan(high - 1)
    IN  Scan(14)

\* marks an IndexError / ValueError raised inside evaluate_7
EvalError == <<-1, <<>>>>

\* the pair of a full house taken from the lowest pair
pair_rank_lowest(trips, pairs) ==
    IF Len(trips) >= 2 THEN trips[2] ELSE pairs[Len(pairs)]

\* lines 159-162: the second trip if there is one, else the highest pair
pair_rank(trips, pairs) ==
    IF Len(trips) >= 2 THEN trips[2] ELSE pairs[1]

\* the remaining ranks in ascending order
ranks_excluding_ascending(unique_ranks, S) ==
    LET d == SeqDesc({r \in Range(unique_ranks) : r \notin S})
    IN  [i \in 1..Len(d) |-> d[Len(d) + 1 - i]]

\* [r for r in unique_ranks if r != ...]: unique_ranks, which is in
\* descending order, without the ranks of S
ranks_excluding(unique_ranks, S) ==
    SeqDesc({r \in Range(unique_ranks) : r \notin S})

\* the ranks of the flush suit in ascending order
flush_cards_ascending(cs, flush_suit) ==
    LET d == SeqDesc({int_to_rank(cs[i]) :
                 i \in {j \in 1..Len(cs) : int_to_suit(cs[j]) = flush_suit}})
    IN  [i \in 1..Len(d) |-> d[Len(d) + 1 - i]]

\* the ranks of the flush suit in the order the cards were passed
RECURSIVE flush_cards_unsorted(_, _)
flush_cards_unsorted(cs, flush_suit) ==
    IF cs = <<>> THEN <<>>
    ELSE (IF int_to_suit(Head(cs)) = flush_suit
          THEN <<int_to_rank(Head(cs))>> ELSE <<>>)
         \o flush_cards_unsorted(Tail(cs), flush_suit)

\* sorted(ranks of the flush suit, reverse=True), repeats kept
flush_cards(cs, flush_suit) ==
    LET RECURSIVE Acc(_)
        Acc(r) == IF r < 2 THEN <<>>
                  ELSE [k \in 1..Cardinality({i \in 1..Len(cs) :
                              /\ int_to_suit(cs[i]) = flush_suit
                              /\ int_to_rank(cs[i]) = r}) |-> r]
                       \o Acc(r - 1)
    IN  Acc(14)

evaluate_7(cs) ==
    LET idx == 1..Len(cs)
        rank_counts == [r \in 0..14 |->
                          Cardinality({i \in idx : int_to_rank(cs[i]) = r})]
        suit_counts == [s \in 0..3 |->
                          Cardinality({i \in idx : int_to_suit(cs[i]) = s})]
        rank_mask == MaskOf({r \in 2..14 : rank_counts[r] > 0})
                     + (IF rank_counts[14] > 0 THEN Pow2(1) ELSE 0)
        flushable == {s \in 0..3 : suit_counts[s] >= 5}
        \* the first suit in 0..3 with five or more cards
        flush_suit == IF flushable = {} THEN -1
                      ELSE CHOOSE s \in flushable : \A t \in flushable : s <= t
        unique_ranks == SeqDesc({r \in 2..14 : rank_counts[r] > 0})
        flush_ranks == {int_to_rank(cs[i]) :
                          i \in {j \in idx : int_to_suit(cs[j]) = flush_suit}}
        flush_mask == MaskOf(flush_ranks)
                      + (IF 14 \in flush_ranks THEN Pow2(1) ELSE 0)
        sf_high == IF flush_suit # -1
                   THEN straight_high_from_ranks_mask(flush_mask) ELSE 0
        quads == SeqDesc({r \in 2..14 : rank_counts[r] = 4})
        trips == SeqDesc({r \in 2..14 : rank_counts[r] = 3})
        pairs == SeqDesc({r \in 2..14 : rank_counts[r] = 2})
        st_high == straight_high_from_ranks_mask(rank_mask)
        without(S) == ranks_excluding(unique_ranks, S)
    IN
    IF sf_high # 0 THEN <<8, <<sf_high>>>>
    ELSE IF quads # <<>> THEN
        LET ks == without({quads[1]})
        IN  IF ks = <<>> THEN EvalError ELSE <<7, <<quads[1], ks[1]>>>>
    ELSE IF trips # <<>> /\ (pairs # <<>> \/ Len(trips) >= 2) THEN
        <<6, <<trips[1], pair_rank(trips, pairs)>>>>
    ELSE IF flush_suit # -1 THEN <<5, Take(flush_cards(cs, flush_suit), 5)>>
    ELSE IF st_high # 0 THEN <<4, <<st_high>>>>
    ELSE IF trips # <<>> THEN
        LET ks == without({trips[1]})
        IN  IF Len(ks) < 2 THEN EvalError ELSE <<3, <<trips[1], ks[1], ks[2]>>>>
    ELSE IF Len(pairs) >= 2 THEN
        LET ks == without({pairs[1], pairs[2]})
        IN  IF ks = <<>> THEN EvalError ELSE <<2, <<pairs[1], pairs[2], ks[1]>>>>
    ELSE IF Len(pairs) = 1 THEN
        LET ks == without({pairs[1]})
        IN  IF Len(ks) < 3 THEN EvalError
            ELSE <<1, <<pairs[1], ks[1], ks[2], ks[3]>>>>
    ELSE <<0, Take(unique_ranks, 5)>>

----------------------------------------------------------------------------
(* Hand comparator                                                         *)

\* a > b that looks at the first elements only
TupleGT_first_only(a, b) ==
    a # <<>> /\ b # <<>> /\ a[1] > b[1]

\* Python's a > b on tuples of integers
TupleGT(a, b) ==
    LET n == IF Len(a) < Len(b) THEN Len(a) ELSE Len(b)
        diff == {i \in 1..n : a[i] # b[i]}
    IN  IF diff = {} THEN Len(a) > Len(b)
        ELSE LET i == CHOOSE j \in diff : \A k \in diff : j <= k
             IN  a[i] > b[i]

\* compare_hands without the test for equal tiebreaks
compare_hands_no_tie(a, b) ==
    IF a[1] # b[1] THEN (IF a[1] > b[1] THEN 1 ELSE -1)
    ELSE IF TupleGT(a[2], b[2]) THEN 1 ELSE -1

compare_hands(a, b) ==
    IF a[1] # b[1] THEN (IF a[1] > b[1] THEN 1 ELSE -1)
    ELSE IF a[2] = b[2] THEN 0
    ELSE IF TupleGT(a[2], b[2]) THEN 1 ELSE -1

----------------------------------------------------------------------------
(* The random module: one process-wide generator.  Its state is a number   *)
(* below RngMod; the state the process starts with comes from the system's *)
(* entropy source.                                                         *)

RngMod == 64

MaxSeed == 1

\* one step of the generator
RandStep(s) == (5 * s + 3) % RngMod

\* random.seed(seed): the state is a function of the seed alone
SeedState(seed) == (7 * seed + 1) % RngMod

\* Seeded with the seed ignored
Seeded_unseeded(s, seed) == s

\* if seed is not None: random.seed(seed)
Seeded(s, seed) == IF seed # NoSeed THEN SeedState(seed) ELSE s

\* random.sample(population, k) for 0 <= k <= len(population): k draws
\* without replacement, each an index below the remaining pool size taken
\* from the next generator state.  Returns <<sample, generator state>>.
RECURSIVE random_sample(_, _, _)
random_sample(s, pool, k) ==
    IF k = 0 THEN <<(<<>>), s>>
    ELSE LET n == Len(pool)
             s1 == RandStep(s)
             j == (s1 % n) + 1
             pool1 == SubSeq([pool EXCEPT ![j] = pool[n]], 1, n - 1)
             rest == random_sample(s1, pool1, k - 1)
         IN  <<(<<pool[j]>> \o rest[1]), rest[2]>>

----------------------------------------------------------------------------
(* simulate_equity                                                         *)

MaxOpp == 2

MaxIter == 2

RECURSIVE Factorial(_)
Factorial(n) == IF n <= 1 THEN 1 ELSE n * Factorial(n - 1)

\* equity_shares is kept as a multiple of 1/ShareUnit, exact for every
\* 1.0 / n_best with n_best <= MaxOpp + 1.  The code adds floats; rounding
\* is monotone and the integers it is compared with are exact floats, so
\* the order between equity_shares, wins and the iteration count is the
\* order of the exact sums.
ShareUnit == Factorial(MaxOpp + 1)

\* a quotient n / d (d # 0) as <<numerator, denominator>>, denominator > 0
Quot(n, d) == IF d < 0 THEN <<-n, -d>> ELSE <<n, d>>

QuotLeq(a, b) == a[1] * b[2] <= b[1] * a[2]

\* opp_cards[i] = draw[i*2:(i+1)*2], i counted from 0
opp_cards(d, i) == SubSeq(Take(d, (i + 1) * 2), i * 2 + 1, Len(Take(d, (i + 1) * 2)))

\* a runout that starts after one card per opponent
runout_one_each(d, n) == Drop(d, n)

\* runout = draw[n_opponents*2:]
runout(d, n) == Drop(d, n * 2)

full_board(r, d) == r.board \o runout(d, r.n_opponents)

\* OppStep without the break on a better opponent
OppStep_no_break(cmp, bc, nb) ==
    IF cmp > 0 THEN [best_cmp |-> -1, n_best |-> 1, brk |-> FALSE]
    ELSE IF cmp = 0 THEN [best_cmp |-> 0, n_best |-> nb + 1, brk |-> FALSE]
    ELSE [best_cmp |-> bc, n_best |-> nb, brk |-> FALSE]

\* OppStep with n_best set to 2 on a tie instead of incremented
OppStep_two_way(cmp, bc, nb) ==
    IF cmp > 0 THEN [best_cmp |-> -1, n_best |-> 1, brk |-> TRUE]
    ELSE IF cmp = 0 THEN [best_cmp |-> 0, n_best |-> 2, brk |-> FALSE]
    ELSE [best_cmp |-> bc, n_best |-> nb, brk |-> FALSE]

\* body of "for oc in opp_cards" for one comparison result cmp
OppStep(cmp, bc, nb) ==
    IF cmp > 0 THEN [best_cmp |-> -1, n_best |-> 1, brk |-> TRUE]
    ELSE IF cmp = 0 THEN [best_cmp |-> 0, n_best |-> nb + 1, brk |-> FALSE]
    ELSE [best_cmp |-> bc, n_best |-> nb, brk |-> FALSE]

\* Tally with the test for a win written as best_cmp > 1
Tally_no_win(bc) == IF bc > 1 THEN <<1, 0, 0>>
                    ELSE IF bc = 0 THEN <<0, 1, 0>>
                    ELSE <<0, 0, 1>>

\* increments of <<wins, ties, losses>> chosen by best_cmp
Tally(bc) == IF bc = 1 THEN <<1, 0, 0>>
             ELSE IF bc = 0 THEN <<0, 1, 0>>
             ELSE <<0, 0, 1>>

\* ShareOf with a tie adding n_best instead of 1.0 / n_best
ShareOf_times(bc, nb) == IF bc = 1 THEN ShareUnit
                         ELSE IF bc = 0 THEN ShareUnit * nb
                         ELSE 0

\* increment of equity_shares, in 1/ShareUnit
ShareOf(bc, nb) == IF bc = 1 THEN ShareUnit
                   ELSE IF bc = 0 THEN ShareUnit \div nb
                   ELSE 0

OutcomeOf(bc) == IF bc = 1 THEN "win" ELSE IF bc = 0 THEN "tie" ELSE "loss"

\* lines 234-245: seeding, the remaining deck, the counters, need_cards
Call(r) ==
    /\ pc = "idle"
    /\ req' = r
    /\ rng0' = rng
    /\ rng' = Seeded(rng, r.seed)
    /\ base_deck' = deck_without(r.hero \o r.board)
    /\ wins' = 0 /\ ties' = 0 /\ losses' = 0 /\ equity_shares' = 0
    /\ need_cards' = r.n_opponents * 2 + (5 - Len(r.board))
    /\ done' = 0
    /\ draw' = <<>> /\ hero_eval' = NoEval /\ best_cmp' = 1 /\ n_best' = 1
    /\ oi' = 0 /\ outcome' = None
    /\ error' = None /\ result' = NoResult
    /\ pc' = "loop"
    /\ UNCHANGED <<ref, cards, ev, otherVars>>

\* Sample that takes the drawn cards out of base_deck
Sample_consuming ==
    /\ pc = "loop"
    /\ done < req.iterations
    /\ IF need_cards < 0 \/ need_cards > Len(base_deck)
       THEN /\ error' = "ValueError"
            /\ pc' = "raised"
            /\ UNCHANGED <<rng, draw, hero_eval, best_cmp, n_best, oi, outcome,
                           base_deck>>
       ELSE LET sm == random_sample(rng, base_deck, need_cards)
                he == evaluate_7(req.hero \o full_board(req, sm[1]))
            IN  /\ draw' = sm[1]
                /\ rng' = sm[2]
                /\ base_deck' = deck_without(req.hero \o req.board \o sm[1])
                /\ hero_eval' = he
                /\ best_cmp' = 1
                /\ n_best' = 1
                /\ oi' = 0
                /\ outcome' = None
                /\ pc' = IF he = EvalError THEN "raised"
                         ELSE IF req.n_opponents > 0 THEN "opps" ELSE "acc"
                /\ error' = IF he = EvalError THEN "EvalError" ELSE error
    /\ UNCHANGED <<req, rng0, need_cards, wins, ties, losses,
                   equity_shares, done, result, ref, cards, ev, otherVars>>

\* lines 247-257: the next iteration starts; random.sample raises
\* ValueError when need_cards is negative or larger than the deck
Sample ==
    /\ pc = "loop"
    /\ done < req.iterations
    /\ IF need_cards < 0 \/ need_cards > Len(base_deck)
       THEN /\ error' = "ValueError"
            /\ pc' = "raised"
            /\ UNCHANGED <<rng, draw, hero_eval, best_cmp, n_best, oi, outcome>>
       ELSE LET sm == random_sample(rng, base_deck, need_cards)
                he == evaluate_7(req.hero \o full_board(req, sm[1]))
            IN  /\ draw' = sm[1]
                /\ rng' = sm[2]
                /\ hero_eval' = he
                /\ best_cmp' = 1
                /\ n_best' = 1
                /\ oi' = 0
                /\ outcome' = None
                \* an exception raised inside evaluate_7 ends the call
                /\ pc' = IF he = EvalError THEN "raised"
                         ELSE IF req.n_opponents > 0 THEN "opps" ELSE "acc"
                /\ error' = IF he = EvalError THEN "EvalError" ELSE error
    /\ UNCHANGED <<req, rng0, base_deck, need_cards, wins, ties, losses,
                   equity_shares, done, result, ref, cards, ev, otherVars>>

\* lines 259-269: one opponent is evaluated and compared with the hero
Compare ==
    /\ pc = "opps"
    /\ oi < req.n_opponents
    /\ LET opp_eval == evaluate_7(opp_cards(draw, oi) \o full_board(req, draw))
           cmp == compare_hands(opp_eval, hero_eval)
           st == OppStep(cmp, best_cmp, n_best)
       IN  IF opp_eval = EvalError
           THEN /\ error' = "EvalError"
                /\ pc' = "raised"
                /\ UNCHANGED <<best_cmp, n_best, oi>>
           ELSE /\ best_cmp' = st.best_cmp
                /\ n_best' = st.n_best
                /\ oi' = oi + 1
                /\ pc' = IF st.brk \/ oi + 1 >= req.n_opponents THEN "acc" ELSE "opps"
                /\ UNCHANGED error
    /\ UNCHANGED <<req, rng, rng0, base_deck, need_cards, wins, ties, losses,
                   equity_shares, done, draw, hero_eval, outcome,
                   result, ref, cards, ev, otherVars>>

\* lines 271-278: the iteration's outcome is added to the totals
Accumulate ==
    /\ pc = "acc"
    /\ wins' = wins + Tally(best_cmp)[1]
    /\ ties' = ties + Tally(best_cmp)[2]
    /\ losses' = losses + Tally(best_cmp)[3]
    /\ equity_shares' = equity_shares + ShareOf(best_cmp, n_best)
    /\ outcome' = OutcomeOf(best_cmp)
    /\ done' = done + 1
    /\ pc' = "loop"
    /\ UNCHANGED <<req, rng, rng0, base_deck, need_cards, draw, hero_eval,
                   best_cmp, n_best, oi, error, result, ref, cards, ev, otherVars>>

\* lines 280-282: the loop is over (at once when iterations <= 0); the
\* division raises ZeroDivisionError when iterations = 0
Return ==
    /\ pc = "loop"
    /\ done >= req.iterations
    /\ IF req.iterations = 0
       THEN /\ error' = "ZeroDivisionError"
            /\ pc' = "raised"
            /\ UNCHANGED result
       ELSE /\ result' = [win_rate |-> Quot(wins, req.iterations),
                          equity |-> Quot(equity_shares, ShareUnit * req.iterations),
                          wins |-> wins, ties |-> ties, losses |-> losses]
            /\ pc' = "returned"
            /\ UNCHANGED error
    /\ UNCHANGED <<req, rng, rng0, base_deck, need_cards, wins, ties, losses,
                   equity_shares, done, draw, hero_eval, best_cmp, n_best, oi,
                   outcome, ref, cards, ev, otherVars>>

\* the returned result of a seeded call is kept to compare later calls with
Remember ==
    /\ pc = "returned"
    /\ req.seed # NoSeed
    /\ ref = NoRef
    /\ ref' = [req |-> req, result |-> result, later |-> FALSE]
    /\ UNCHANGED <<pc, req, rng, rng0, base_deck, need_cards, wins, ties, losses,
                   equity_shares, done, draw, hero_eval, best_cmp, n_best, oi,
                   outcome, error, result, cards, ev, otherVars>>

\* the caller has the result or the exception; the locals of the call are
\* gone, the generator of the random module stays as the call left it
Finish ==
    /\ pc \in {"returned", "raised"}
    /\ pc' = "idle"
    /\ req' = NoCall
    /\ rng0' = rng
    /\ base_deck' = <<>> /\ need_cards' = 0
    /\ wins' = 0 /\ ties' = 0 /\ losses' = 0 /\ equity_shares' = 0 /\ done' = 0
    /\ draw' = <<>> /\ hero_eval' = NoEval /\ best_cmp' = 1 /\ n_best' = 1
    /\ oi' = 0 /\ outcome' = None
    /\ error' = None /\ result' = NoResult
    /\ ref' = IF ref = NoRef THEN ref ELSE [ref EXCEPT !.later = TRUE]
    /\ UNCHANGED <<rng, cards, ev, otherVars>>

----------------------------------------------------------------------------
(* The calls the process makes                                             *)

\* 5d 6c 7h 8s 9d: a straight on the board
Board5 == <<16, 4, 31, 45, 20>>

\* the known board before the flop, and after 1..5 of its cards are known
Boards == {Take(Board5, k) : k \in 0..5}

\* 2c 2d, which plays the board, and Tc 2c, which makes the higher straight
Heroes == {<<0, 13>>, <<8, 0>>}

\* --iterations is any integer
IterCounts == (-1)..MaxIter

Seeds == {NoSeed} \cup (0..MaxSeed)

\* an opponent count that needs more cards than any remaining deck holds
TooManyOpp == 23

\* calls with opponents, on the flop and on the river
PlayRequests ==
    [hero : Heroes, board : {Take(Board5, 3), Board5}, n_opponents : 1..MaxOpp,
     iterations : 1..MaxIter, seed : Seeds]

\* calls without opponents, on every street, for every iteration count
SoloRequests ==
    [hero : Heroes, board : Boards, n_opponents : {0},
     iterations : IterCounts, seed : {NoSeed}]

\* calls that need more cards than remain
CrowdRequests ==
    [hero : Heroes, board : {<<>>, Board5}, n_opponents : {TooManyOpp},
     iterations : IterCounts, seed : Seeds]

Requests == PlayRequests \cup SoloRequests \cup CrowdRequests

\* the calls of a process that calls simulate_equity again and again
RepeatRequests ==
    [hero : {<<8, 0>>}, board : {Take(Board5, 3)}, n_opponents : 1..MaxOpp,
     iterations : 1..MaxIter, seed : Seeds]

Init ==
    /\ pc = "idle" /\ req = NoCall
    /\ rng \in 0..(RngMod - 1)
    /\ rng0 = rng
    /\ base_deck = <<>> /\ need_cards = 0
    /\ wins = 0 /\ ties = 0 /\ losses = 0 /\ equity_shares = 0 /\ done = 0
    /\ draw = <<>> /\ hero_eval = NoEval /\ best_cmp = 1 /\ n_best = 1 /\ oi = 0
    /\ outcome = None /\ error = None /\ result = NoResult /\ ref = NoRef
    /\ cards = <<>> /\ ev = NoEval
    /\ entry = "none"
    /\ cmp_in = NoCmp /\ cmp_out = <<>>
    /\ tin = NoText /\ tout = NoOut
    /\ report = NoReport /\ other = NoOther

Next ==
    \/ \E r \in Requests : Call(r)
    \/ Sample
    \/ Compare
    \/ Accumulate
    \/ Return

Spec == Init /\ [][Next]_vars

NextRepeat ==
    \/ \E r \in RepeatRequests : Call(r)
    \/ Sample
    \/ Compare
    \/ Accumulate
    \/ Return
    \/ Remember
    \/ Finish

SpecRepeat == Init /\ [][NextRepeat]_vars

----------------------------------------------------------------------------
(* Two threads of one process calling simulate_equity.  The first thread   *)
(* is the call modelled above; of the second thread's call only what it    *)
(* does to the state the threads share is kept: the generator of the       *)
(* random module.  Its deck, evaluations and counters are its own locals.  *)

\* the seeded call of the first thread, made once alone and then again
ConcRequests ==
    [hero : {<<8, 0>>}, board : {Take(Board5, 3)}, n_opponents : {1},
     iterations : 1..MaxIter, seed : {0}]

\* the seeded call of the second thread
OtherRequests ==
    [hero : {<<0, 13>>}, board : {Take(Board5, 3)}, n_opponents : {1},
     iterations : {1}, seed : {1}]

\* lines 234-245 in the second thread: random.seed(seed) on the shared
\* generator.  The thread is started once the first thread's call has been
\* made alone.
OtherCall(r) ==
    /\ ref.later
    /\ other.pc = "idle"
    /\ rng' = Seeded(rng, r.seed)
    /\ other' = [pc |-> "loop", req |-> r, done |-> 0]
    /\ UNCHANGED <<pc, req, rng0, base_deck, need_cards, wins, ties, losses,
                   equity_shares, done, draw, hero_eval, best_cmp, n_best, oi,
                   outcome, error, result, ref, cards, ev,
                   entry, cmp_in, cmp_out, tin, tout, report>>

\* lines 247-278 in the second thread: one iteration, whose random.sample
\* advances the shared generator
OtherSample ==
    /\ other.pc = "loop"
    /\ other.done < other.req.iterations
    /\ rng' = random_sample(rng,
                            deck_without(other.req.hero \o other.req.board),
                            other.req.n_opponents * 2
                                + (5 - Len(other.req.board)))[2]
    /\ other' = [other EXCEPT !.done = other.done + 1]
    /\ UNCHANGED <<pc, req, rng0, base_deck, need_cards, wins, ties, losses,
                   equity_shares, done, draw, hero_eval, best_cmp, n_best, oi,
                   outcome, error, result, ref, cards, ev,
                   entry, cmp_in, cmp_out, tin, tout, report>>

\* lines 280-282 in the second thread
OtherReturn ==
    /\ other.pc = "loop"
    /\ other.done >= other.req.iterations
    /\ other' = [other EXCEPT !.pc = "returned"]
    /\ UNCHANGED <<pc, req, rng, rng0, base_deck, need_cards, wins, ties,
                   losses, equity_shares, done, draw, hero_eval, best_cmp,
                   n_best, oi, outcome, error, result, ref, cards, ev,
                   entry, cmp_in, cmp_out, tin, tout, report>>

NextConc ==
    \/ \E r \in ConcRequests : Call(r)
    \/ Sample
    \/ Compare
    \/ Accumulate
    \/ Return
    \/ Remember
    \/ Finish
    \/ \E r \in OtherRequests : OtherCall(r)
    \/ OtherSample
    \/ OtherReturn

SpecConc == Init /\ [][NextConc]_vars

----------------------------------------------------------------------------
(* The two programs that call simulate_equity: the command-line main and   *)
(* PokerAI.calculate_win_probability.  A process runs one of them.         *)

HeroTexts ==
    {<<"2", "c", " ", "2", "d">>,
     <<"2", "c", " ", "2", "c">>,
     <<"2", "c">>,
     <<"2", "c", " ", "2", "d", " ", "2", "h">>,
     <<"2", "x", " ", "2", "d">>}

BoardTexts ==
    {<<>>,
     <<"5", "d", " ", "6", "c", " ", "7", "h", " ", "8", "s", " ", "9", "d">>,
     <<"5", "d", " ", "6", "c", " ", "7", "h", " ", "8", "s", " ", "9", "d",
       " ", "T", "s">>,
     <<"2", "c", ",", "5", "d", ",", "6", "c">>}

\* the command line of main
\* the iteration counts the two programs are started with
EntryIterations == (-1)..1

MainArgs ==
    [hero : HeroTexts, board : BoardTexts, opponents : 0..1,
     iterations : EntryIterations, seed : {NoSeed, 0}]

\* the arguments of calculate_win_probability
AiArgs ==
    [hero : HeroTexts, board : BoardTexts, opponents : 0..1,
     iterations : EntryIterations]

\* len(set(hero_cards + board_cards)) != len(hero_cards) + len(board_cards)
Duplicates(hero_cards, board_cards) ==
    Cardinality(Range(hero_cards \o board_cards))
        # Len(hero_cards) + Len(board_cards)

\* main, lines 303-329: parse, validate, then call simulate_equity; a
\* ValueError of the parser and the SystemExit of a failed validation end
\* the program
MainCall(a) ==
    /\ entry = "main"
    /\ pc = "idle"
    /\ LET h == parse_cards_str(a.hero)
           b == parse_cards_str(a.board)
           r == [hero |-> h.cards, board |-> b.cards,
                 n_opponents |-> a.opponents, iterations |-> a.iterations,
                 seed |-> a.seed]
       IN  IF ~h.ok \/ ~b.ok
           THEN /\ error' = "ValueError"
                /\ pc' = "exit"
                /\ UNCHANGED <<req, rng, rng0, base_deck, need_cards, wins,
                               ties, losses, equity_shares, done, draw,
                               hero_eval, best_cmp, n_best, oi, outcome,
                               result, ref, cards, ev, otherVars>>
           ELSE IF \/ Len(h.cards) # 2
                   \/ Len(b.cards) > 5
                   \/ Duplicates(h.cards, b.cards)
           THEN /\ req' = r
                /\ error' = "SystemExit"
                /\ pc' = "exit"
                /\ UNCHANGED <<rng, rng0, base_deck, need_cards, wins,
                               ties, losses, equity_shares, done, draw,
                               hero_eval, best_cmp, n_best, oi, outcome,
                               result, ref, cards, ev, otherVars>>
           ELSE Call(r)

\* the intervals are kept in units of 1/CiScale, rounded down
CiScale == 1000

\* math.sqrt of x / CiScale^2, in units of 1/CiScale
isqrt(x) == CHOOSE r \in 0..CiScale : r * r <= x /\ (r + 1) * (r + 1) > x

\* main.ci, lines 333-335, for p = <<numerator, denominator>>:
\* se = sqrt(p*(1-p)/n) if n > 0 else 0.0, then
\* (max(0.0, p - 1.96*se), min(1.0, p + 1.96*se))
ci(p, n) ==
    LET p_fp == (p[1] * CiScale) \div p[2]
        se == IF n > 0
              THEN isqrt((p[1] * (p[2] - p[1]) * CiScale * CiScale)
                             \div (p[2] * p[2] * n))
              ELSE 0
        half == (196 * se) \div 100
    IN  <<IF p_fp - half > 0 THEN p_fp - half ELSE 0,
          IF p_fp + half < CiScale THEN p_fp + half ELSE CiScale>>

\* main, lines 331-345: the intervals of the returned win rate and equity
\* are computed with n = args.iterations and the result is printed
MainPrint ==
    /\ entry = "main"
    /\ pc = "returned"
    /\ report' = [win |-> ci(result.win_rate, req.iterations),
                  eq |-> ci(result.equity, req.iterations)]
    /\ pc' = "printed"
    /\ UNCHANGED <<req, rng, rng0, base_deck, need_cards, wins, ties, losses,
                   equity_shares, done, draw, hero_eval, best_cmp, n_best, oi,
                   outcome, error, result, ref, cards, ev,
                   entry, cmp_in, cmp_out, tin, tout, other>>

\* calculate_win_probability, lines 233-255: parse and call simulate_equity
\* with seed=None; nothing is validated.  A ValueError of the parser is
\* caught and None is returned.
AiCall(a) ==
    /\ entry = "ai"
    /\ pc = "idle"
    /\ LET h == parse_cards_str(a.hero)
           b == IF strip(a.board) # <<>> THEN parse_cards_str(a.board)
                ELSE [ok |-> TRUE, cards |-> <<>>, tok |-> <<>>]
           r == [hero |-> h.cards, board |-> b.cards,
                 n_opponents |-> a.opponents, iterations |-> a.iterations,
                 seed |-> NoSeed]
       IN  IF ~h.ok \/ ~b.ok
           THEN /\ error' = "ValueError"
                /\ pc' = "ai_none"
                /\ UNCHANGED <<req, rng, rng0, base_deck, need_cards, wins,
                               ties, losses, equity_shares, done, draw,
                               hero_eval, best_cmp, n_best, oi, outcome,
                               result, ref, cards, ev, otherVars>>
           ELSE Call(r)

\* calculate_win_probability, lines 257-274: the equity of the returned
\* result is formatted as a percentage and returned; an exception of
\* simulate_equity is caught and None is returned
AiReturn ==
    /\ entry = "ai"
    /\ pc \in {"returned", "raised"}
    /\ pc' = IF pc = "returned" THEN "ai_percent" ELSE "ai_none"
    /\ UNCHANGED <<req, rng, rng0, base_deck, need_cards, wins, ties, losses,
                   equity_shares, done, draw, hero_eval, best_cmp, n_best, oi,
                   outcome, error, result, ref, cards, ev, otherVars>>

InitEntry ==
    /\ pc = "idle" /\ req = NoCall
    /\ rng \in 0..(RngMod - 1)
    /\ rng0 = rng
    /\ base_deck = <<>> /\ need_cards = 0
    /\ wins = 0 /\ ties = 0 /\ losses = 0 /\ equity_shares = 0 /\ done = 0
    /\ draw = <<>> /\ hero_eval = NoEval /\ best_cmp = 1 /\ n_best = 1 /\ oi = 0
    /\ outcome = None /\ error = None /\ result = NoResult /\ ref = NoRef
    /\ cards = <<>> /\ ev = NoEval
    /\ entry \in {"main", "ai"}
    /\ cmp_in = NoCmp /\ cmp_out = <<>>
    /\ tin = NoText /\ tout = NoOut
    /\ report = NoReport /\ other = NoOther

NextEntry ==
    \/ \E a \in MainArgs : MainCall(a)
    \/ \E a \in AiArgs : AiCall(a)
    \/ Sample
    \/ Compare
    \/ Accumulate
    \/ Return
    \/ MainPrint
    \/ AiReturn

SpecEntry == InitEntry /\ [][NextEntry]_vars

----------------------------------------------------------------------------
(* Evaluator harness: evaluate_7 applied to 7 distinct cards               *)

\* ranks held by the harness hands, in the order the suits receive them
EvalRankOrder == <<14, 3, 4, 2, 5, 6, 9, 11, 13, 12, 10, 8, 7>>

\* suit 0 holds the first MaxEvalRanks ranks of EvalRankOrder
MaxEvalRanks == 8

\* suits 1, 2, 3 hold the first 3, 3, 2 ranks of EvalRankOrder
EvalSuitRanks == <<MaxEvalRanks, 3, 3, 2>>

EvalCards == {c \in 0..51 :
                \E k \in 1..EvalSuitRanks[int_to_suit(c) + 1] :
                    EvalRankOrder[k] = int_to_rank(c)}

\* the cards of S in ascending order
RECURSIVE SeqAsc(_)
SeqAsc(S) == IF S = {} THEN <<>>
             ELSE LET m == CHOOSE x \in S : \A y \in S : x <= y
                  IN  <<m>> \o SeqAsc(S \ {m})

EvalHands == {SeqAsc(h) : h \in {s \in SUBSET EvalCards : Cardinality(s) = 7}}

SimIdle ==
    /\ pc = "idle" /\ req = NoCall /\ rng = 0 /\ rng0 = 0
    /\ base_deck = <<>> /\ need_cards = 0
    /\ wins = 0 /\ ties = 0 /\ losses = 0 /\ equity_shares = 0 /\ done = 0
    /\ draw = <<>> /\ hero_eval = NoEval /\ best_cmp = 1 /\ n_best = 1 /\ oi = 0
    /\ outcome = None /\ error = None /\ result = NoResult /\ ref = NoRef

InitEval ==
    /\ SimIdle
    /\ cards \in EvalHands
    /\ ev = NoEval
    /\ entry = "none"
    /\ cmp_in = NoCmp /\ cmp_out = <<>>
    /\ tin = NoText /\ tout = NoOut
    /\ report = NoReport /\ other = NoOther

Evaluate ==
    /\ cards # <<>>
    /\ ev = NoEval
    /\ ev' = evaluate_7(cards)
    /\ UNCHANGED <<cards>>
    /\ UNCHANGED simVars
    /\ UNCHANGED otherVars

NextEval == Evaluate

SpecEval == InitEval /\ [][NextEval]_vars

----------------------------------------------------------------------------
(* Comparator harness: compare_hands applied to every ordered pair of      *)
(* three evaluator outputs                                                 *)

CmpHandList ==
    <<<<51, 24, 33, 5, 16, 40, 0>>,      \* As Kd 9h 7c 5d 3s 2c
      <<51, 24, 33, 5, 15, 40, 0>>,      \* As Kd 9h 7c 4d 3s 2c
      <<51, 25, 33, 5, 16, 40, 0>>,      \* As Ad 9h 7c 5d 3s 2c
      <<51, 25, 33, 4, 16, 40, 0>>,      \* As Ad 9h 6c 5d 3s 2c
      <<50, 24, 33, 5, 16, 40, 0>>,      \* Ks Kd 9h 7c 5d 3s 2c
      <<51, 25, 33, 7, 16, 40, 0>>,      \* As Ad 9h 9c 5d 3s 2c
      <<51, 13, 27, 2, 16, 46, 11>>,     \* As 2d 3h 4c 5d 9s Kc
      <<51, 50, 46, 44, 16, 40, 0>>,     \* As Ks 9s 7s 5d 3s 2c
      <<51, 25, 38, 7, 20, 40, 0>>,      \* As Ad Ah 9c 9d 3s 2c
      <<51, 25, 38, 12, 20, 40, 0>>,     \* As Ad Ah Ac 9d 3s 2c
      <<42, 43, 44, 45, 46, 14, 0>>,     \* 5s 6s 7s 8s 9s 3d 2c
      <<51, 25, 33, 7, 15, 40, 0>>,      \* As Ad 9h 9c 4d 3s 2c
      <<51, 25, 38, 5, 16, 40, 0>>,      \* As Ad Ah 7c 5d 3s 2c
      <<39, 14, 28, 3, 17, 46, 11>>>>    \* 2s 3d 4h 5c 6d 9s Kc

MaxCmpHands == 12

\* what evaluate_7 returns for the hands compared
CmpEvals == {evaluate_7(h) : h \in Range(Take(CmpHandList, MaxCmpHands))}

InitCmp ==
    /\ SimIdle
    /\ cards = <<>> /\ ev = NoEval
    /\ entry = "none"
    /\ cmp_in \in CmpEvals \X CmpEvals \X CmpEvals
    /\ cmp_out = <<>>
    /\ tin = NoText /\ tout = NoOut
    /\ report = NoReport /\ other = NoOther

CompareAll ==
    /\ cmp_out = <<>>
    /\ cmp_out' = [i \in 1..3 |->
                      [j \in 1..3 |-> compare_hands(cmp_in[i], cmp_in[j])]]
    /\ UNCHANGED <<cmp_in, entry, tin, tout, report, other, cards, ev>>
    /\ UNCHANGED simVars

NextCmp == CompareAll

SpecCmp == InitCmp /\ [][NextCmp]_vars

----------------------------------------------------------------------------
(* Evaluator harness over the orders of one hand: evaluate_7 applied to    *)
(* every arrangement of the same 7 cards                                   *)

PermHandList ==
    <<<<51, 50, 46, 44, 42, 40, 39>>,    \* As Ks 9s 7s 5s 3s 2s
      <<51, 25, 33, 7, 16, 42, 0>>,      \* As Ad 9h 9c 5d 5s 2c
      <<51, 25, 38, 7, 20, 46, 0>>,      \* As Ad Ah 9c 9d 9s 2c
      <<42, 43, 44, 45, 46, 51, 0>>,     \* 5s 6s 7s 8s 9s As 2c
      <<51, 24, 33, 5, 16, 40, 0>>>>     \* As Kd 9h 7c 5d 3s 2c

MaxPermHands == 3

PermHands == Range(Take(PermHandList, MaxPermHands))

InitPerm ==
    /\ SimIdle
    /\ cards \in {[i \in 1..7 |-> h[p[i]]] :
                      h \in PermHands, p \in Permutations(1..7)}
    /\ ev = NoEval
    /\ entry = "none"
    /\ cmp_in = NoCmp /\ cmp_out = <<>>
    /\ tin = NoText /\ tout = NoOut
    /\ report = NoReport /\ other = NoOther

NextPerm == Evaluate

SpecPerm == InitPerm /\ [][NextPerm]_vars

----------------------------------------------------------------------------
(* Notation harness: card_str_to_int, parse_cards_str, format_cards and    *)
(* the decoders applied to texts, card lists and cards                     *)

MaxTokLen == 3

MaxTextLen == 5

MaxListLen == 3

\* the sequences over S of length at most n
SeqsUpTo(S, n) == UNION {[1..k -> S] : k \in 0..n}

TokenAlphabet == {"A", "a", "2", "s", "S", "x", " ", "\t"}

TextAlphabet == {"A", "2", "s", " ", ",", "x"}

\* every rank character in both cases followed by every suit letter in
\* both cases
CaseTokens ==
    {<<r, u>> : r \in {RANKS[i] : i \in 1..13} \cup {lower(RANKS[i]) : i \in 1..13},
                u \in {SUITS[i] : i \in 1..4} \cup {upper(SUITS[i]) : i \in 1..4}}

ListCards == {0, 12, 13, 21, 30, 38, 39, 51}

TextInputs ==
    [kind : {"token"}, text : SeqsUpTo(TokenAlphabet, MaxTokLen) \cup CaseTokens,
     cards : {<<>>}]
    \cup [kind : {"list"}, text : SeqsUpTo(TextAlphabet, MaxTextLen),
          cards : {<<>>}]
    \cup [kind : {"cards"}, text : {<<>>}, cards : SeqsUpTo(ListCards, MaxListLen)]
    \cup [kind : {"card"}, text : {<<>>}, cards : {<<c>> : c \in 0..51}]
    \cup [kind : {"decode"}, text : {<<>>}, cards : (0..51) \X (0..51)]

InitText ==
    /\ SimIdle
    /\ cards = <<>> /\ ev = NoEval
    /\ entry = "none"
    /\ cmp_in = NoCmp /\ cmp_out = <<>>
    /\ tin \in TextInputs
    /\ tout = NoOut
    /\ report = NoReport /\ other = NoOther

\* card_str_to_int(t), and format_cards of the card it returns
ParseToken ==
    /\ tin.kind = "token" /\ tout.op = "none"
    /\ LET r == card_str_to_int(tin.text)
       IN  tout' = [op |-> "token",
                    err |-> IF r.ok THEN None ELSE "ValueError",
                    tok |-> r.tok,
                    cards |-> IF r.ok THEN <<r.val>> ELSE <<>>,
                    text |-> IF r.ok THEN format_cards(<<r.val>>) ELSE <<>>]
    /\ UNCHANGED <<tin, entry, cmp_in, cmp_out, report, other, cards, ev>>
    /\ UNCHANGED simVars

\* parse_cards_str(text)
ParseList ==
    /\ tin.kind = "list" /\ tout.op = "none"
    /\ LET r == parse_cards_str(tin.text)
       IN  tout' = [op |-> "list",
                    err |-> IF r.ok THEN None ELSE "ValueError",
                    tok |-> r.tok, cards |-> r.cards, text |-> <<>>]
    /\ UNCHANGED <<tin, entry, cmp_in, cmp_out, report, other, cards, ev>>
    /\ UNCHANGED simVars

\* parse_cards_str(format_cards(cards))
FormatList ==
    /\ tin.kind = "cards" /\ tout.op = "none"
    /\ LET t == format_cards(tin.cards)
           r == parse_cards_str(t)
       IN  tout' = [op |-> "format",
                    err |-> IF r.ok THEN None ELSE "ValueError",
                    tok |-> r.tok, cards |-> r.cards, text |-> t]
    /\ UNCHANGED <<tin, entry, cmp_in, cmp_out, report, other, cards, ev>>
    /\ UNCHANGED simVars

\* card_str_to_int(format_cards([c]))
FormatCard ==
    /\ tin.kind = "card" /\ tout.op = "none"
    /\ LET t == format_cards(tin.cards)
           r == card_str_to_int(t)
       IN  tout' = [op |-> "card",
                    err |-> IF r.ok THEN None ELSE "ValueError",
                    tok |-> r.tok,
                    cards |-> IF r.ok THEN <<r.val>> ELSE <<>>,
                    text |-> t]
    /\ UNCHANGED <<tin, entry, cmp_in, cmp_out, report, other, cards, ev>>
    /\ UNCHANGED simVars

\* int_to_rank and int_to_suit of two cards
DecodeCards ==
    /\ tin.kind = "decode" /\ tout.op = "none"
    /\ tout' = [op |-> "decode", err |-> None, tok |-> <<>>,
                cards |-> <<int_to_rank(tin.cards[1]), int_to_suit(tin.cards[1]),
                            int_to_rank(tin.cards[2]), int_to_suit(tin.cards[2])>>,
                text |-> <<>>]
    /\ UNCHANGED <<tin, entry, cmp_in, cmp_out, report, other, cards, ev>>
    /\ UNCHANGED simVars

NextText ==
    \/ ParseToken
    \/ ParseList
    \/ FormatList
    \/ FormatCard
    \/ DecodeCards

SpecText == InitText /\ [][NextText]_vars

----------------------------------------------------------------------------
(* Straight harness: straight_high_from_ranks_mask applied to every mask   *)
(* over the bit positions 1..14                                            *)

\* tin.cards lists the bit positions that are set, in ascending order
MaskInputs ==
    [kind : {"mask"}, text : {<<>>}, cards : {SeqAsc(S) : S \in SUBSET (1..14)}]

InitMask ==
    /\ SimIdle
    /\ cards = <<>> /\ ev = NoEval
    /\ entry = "none"
    /\ cmp_in = NoCmp /\ cmp_out = <<>>
    /\ tin \in MaskInputs
    /\ tout = NoOut
    /\ report = NoReport /\ other = NoOther

StraightHigh ==
    /\ tin.kind = "mask" /\ tout.op = "none"
    /\ tout' = [op |-> "mask", err |-> None, tok |-> <<>>,
                cards |-> <<straight_high_from_ranks_mask(MaskOf(Range(tin.cards)))>>,
                text |-> <<>>]
    /\ UNCHANGED <<tin, entry, cmp_in, cmp_out, report, other, cards, ev>>
    /\ UNCHANGED simVars

NextMask == StraightHigh

SpecMask == InitMask /\ [][NextMask]_vars

----------------------------------------------------------------------------
(* Standard poker ranking of a 5-card hand, and the best of the 21         *)
(* five-card hands of 7 cards                                              *)

Rank5(h) ==
    LET rs == {int_to_rank(c) : c \in h}
        cnt(r) == Cardinality({c \in h : int_to_rank(c) = r})
        isFlush == Cardinality({int_to_suit(c) : c \in h}) = 1
        lo == CHOOSE x \in rs : \A y \in rs : x <= y
        straight == IF Cardinality(rs) # 5 THEN 0
                    ELSE IF Max(rs) - lo = 4 THEN Max(rs)
                    ELSE IF rs = {14, 2, 3, 4, 5} THEN 5
                    ELSE 0
        grp(n) == SeqDesc({r \in rs : cnt(r) = n})
        byCount == grp(4) \o grp(3) \o grp(2) \o grp(1)
    IN  IF isFlush /\ straight # 0 THEN <<8, <<straight>>>>
        ELSE IF grp(4) # <<>> THEN <<7, byCount>>
        ELSE IF grp(3) # <<>> /\ grp(2) # <<>> THEN <<6, byCount>>
        ELSE IF isFlush THEN <<5, byCount>>
        ELSE IF straight # 0 THEN <<4, <<straight>>>>
        ELSE IF grp(3) # <<>> THEN <<3, byCount>>
        ELSE IF Len(grp(2)) = 2 THEN <<2, byCount>>
        ELSE IF Len(grp(2)) = 1 THEN <<1, byCount>>
        ELSE <<0, byCount>>

\* strength of an evaluation as one number: category, then the tiebreak
\* ranks as base-15 digits from the left
EvalKey(e) ==
    LET RECURSIVE Acc(_)
        Acc(i) == IF i > Len(e[2]) THEN 0 ELSE e[2][i] * 15 ^ (5 - i) + Acc(i + 1)
    IN  e[1] * 15 ^ 5 + Acc(1)

Best5Of7(cs) ==
    LET evs == {Rank5(h) : h \in {s \in SUBSET Range(cs) : Cardinality(s) = 5}}
    IN  CHOOSE e \in evs : \A f \in evs : EvalKey(e) >= EvalKey(f)

\* C1: for 7 distinct cards evaluate_7 returns the (category, tiebreak) of
\* the strongest of the 21 five-card hands chosen from them, under standard
\* poker ranking with the ace-low wheel.
C1_BestOf21 ==
    (ev # NoEval /\ Cardinality(Range(cards)) = 7) => ev = Best5Of7(cards)

\* C1 witness: evaluate_7 has returned a wheel straight that is the best of
\* the 21 hands although the 7 cards also hold a pair.
C1_Witness ==
    /\ ev = <<4, <<5>>>>
    /\ Cardinality({int_to_rank(c) : c \in Range(cards)}) = 6

----------------------------------------------------------------------------
(* What an iteration's draw decides, stated over all opponents at once     *)

OppEval(i) == evaluate_7(opp_cards(draw, i) \o full_board(req, draw))

\* opponents whose evaluation is strictly better than the hero's
Better == {i \in 0..(req.n_opponents - 1) : compare_hands(OppEval(i), hero_eval) > 0}

\* opponents whose evaluation equals the hero's
Equal == {i \in 0..(req.n_opponents - 1) : compare_hands(OppEval(i), hero_eval) = 0}

FirstBetter == CHOOSE i \in Better : \A j \in Better : i <= j

\* C2: every iteration increments exactly one of wins, ties, losses, so
\* wins + ties + losses is the number of completed iterations, and on return
\* it equals iterations.
C2_SumIsIterations ==
    /\ wins + ties + losses = done
    /\ pc = "returned" =>
          result.wins + result.ties + result.losses = req.iterations

\* C3: the accumulated equity share is at least the win count and at most
\* the number of completed iterations, and every returned result has
\* 0 <= win_rate <= equity <= 1.
C3_RatesOrdered ==
    /\ wins * ShareUnit <= equity_shares
    /\ equity_shares <= done * ShareUnit
    /\ pc = "returned" =>
          /\ QuotLeq(<<0, 1>>, result.win_rate)
          /\ QuotLeq(result.win_rate, result.equity)
          /\ QuotLeq(result.equity, <<1, 1>>)

\* C3 witness: a returned run with a win and a tie, so win_rate < equity < 1.
C3_Witness ==
    /\ pc = "returned"
    /\ result.wins > 0
    /\ result.ties > 0
    /\ ~QuotLeq(result.equity, result.win_rate)

\* C4: an iteration is a loss iff some opponent is strictly better than the
\* hero, a tie iff none is better and some opponent equals the hero, a win
\* iff the hero is strictly better than every opponent; the comparison stops
\* at the first strictly better opponent.
C4_Outcome ==
    outcome # None =>
        /\ (outcome = "loss") <=> (Better # {})
        /\ (outcome = "tie") <=> (Better = {} /\ Equal # {})
        /\ (outcome = "win") <=> (Better = {} /\ Equal = {})
        /\ oi = IF Better # {} THEN FirstBetter + 1 ELSE req.n_opponents

\* C4 witness: a loss recorded after an earlier opponent tied the hero.
C4_Witness ==
    /\ outcome = "loss"
    /\ \E i \in Equal : i < FirstBetter
    /\ oi = FirstBetter + 1

\* C5: a tied iteration adds 1/k to the equity shares, k being one plus the
\* number of opponents equal to the hero, with 2 <= k <= n_opponents + 1; a
\* win adds exactly 1 and a loss exactly 0.
C5_Share ==
    [][(pc = "acc" /\ pc' = "loop") =>
        LET k == 1 + Cardinality(Equal)
            added == equity_shares' - equity_shares
        IN  /\ outcome' = "win" => added = ShareUnit
            /\ outcome' = "loss" => added = 0
            /\ outcome' = "tie" =>
                  /\ added * k = ShareUnit
                  /\ 2 <= k
                  /\ k <= req.n_opponents + 1]_vars

\* C5 witness: a three-way tie has been accumulated.
C5_Witness ==
    /\ outcome = "tie"
    /\ Cardinality(Equal) = 2
    /\ equity_shares * 3 = ShareUnit

\* the cards of one simulated deal: hero, known board, every opponent's hole
\* cards, runout
RECURSIVE HoleCards(_)
HoleCards(i) == IF i >= req.n_opponents THEN <<>>
                ELSE opp_cards(draw, i) \o HoleCards(i + 1)

Dealt == req.hero \o req.board \o HoleCards(0) \o runout(draw, req.n_opponents)

\* C6: within one simulated deal no card appears twice among the hero's
\* cards, the known board, the opponents' hole cards and the runout.
C6_NoDuplicate ==
    pc \in {"opps", "acc"} =>
        /\ Len(Dealt) = 2 + 5 + 2 * req.n_opponents
        /\ Cardinality(Range(Dealt)) = Len(Dealt)

\* C6 witness: a deal on the flop with MaxOpp opponents: two runout cards and
\* two hole cards each.
C6_Witness ==
    /\ pc = "acc"
    /\ Len(req.board) = 3
    /\ req.n_opponents >= 2
    /\ Len(draw) = 2 * req.n_opponents + 2

\* C7: a call with the same seed, hero, board, opponents and iterations as
\* an earlier seeded call returns the identical result, whatever calls were
\* made in between.
C7_SameSeedSameResult ==
    (pc = "returned" /\ ref # NoRef /\ ref.req = req) => result = ref.result

\* C7 witness: a later call repeats the remembered seeded call, is entered
\* with the generator in another state than the seed gives, and has returned.
C7_Witness ==
    /\ pc = "returned"
    /\ ref.later
    /\ ref.req = req
    /\ rng0 # SeedState(req.seed)
    /\ result.wins + result.ties + result.losses = req.iterations

\* C8: a call leaves the sampler state seen by later calls as it found it.
C8_SamplerUntouched ==
    pc \in {"returned", "raised"} => rng = rng0

\* C9: with no opponents and a positive iteration count the call returns
\* win_rate = equity = 1, wins = iterations, ties = losses = 0.
C9_NoOpponents ==
    (req.n_opponents = 0 /\ req.iterations > 0 /\ pc # "idle") =>
        /\ pc # "raised"
        /\ pc = "returned" =>
              /\ result.win_rate[1] = result.win_rate[2]
              /\ result.equity[1] = result.equity[2]
              /\ result.wins = req.iterations
              /\ result.ties = 0
              /\ result.losses = 0

\* C9 witness: a call without opponents before the flop has returned after
\* more than one iteration.
C9_Witness ==
    /\ pc = "returned"
    /\ req.n_opponents = 0
    /\ req.board = <<>>
    /\ req.iterations >= 2
    /\ result.wins = req.iterations

\* C10: the call fails with the insufficient-cards error whenever need_cards
\* exceeds the remaining deck, for every iteration count and before any card
\* is sampled, and with no such error otherwise.
C10_InsufficientCards ==
    /\ (pc \in {"returned", "raised"} /\ need_cards > Len(base_deck)) =>
          (error = "ValueError" /\ draw = <<>>)
    /\ error = "ValueError" => need_cards > Len(base_deck)

\* C11: every iteration count <= 0 is rejected with an invalid-iteration-count
\* error and no result is returned for it.
C11_NonPositiveRejected ==
    (pc # "idle" /\ req.iterations <= 0) =>
        /\ pc # "returned"
        /\ pc = "raised" => error = "InvalidIterationCountError"

\* C12: a call either completes all iterations or is rejected atomically:
\* an error is raised before the first draw, before the sampler is seeded or
\* advanced, and never once the first iteration has started.
C12_RejectedAtomically ==
    pc = "raised" =>
        /\ rng = rng0
        /\ draw = <<>>
        /\ done = 0

\* the request breaks a rule of the contract: duplicate cards across hero
\* and board, a hero that is not exactly 2 cards, or a board of more than 5
InvalidRequest ==
    \/ Len(req.hero) # 2
    \/ Len(req.board) > 5
    \/ \E i, j \in 1..Len(req.hero \o req.board) :
           i # j /\ (req.hero \o req.board)[i] = (req.hero \o req.board)[j]

\* C13: an invalid request is rejected with a validation error before any
\* iteration runs, from either entry point, and never yields a result.
C13_InvalidRejected ==
    (req # NoCall /\ InvalidRequest) =>
        /\ draw = <<>> /\ done = 0
        /\ result = NoResult
        /\ pc \notin {"returned", "printed", "ai_percent"}
        /\ pc \in {"exit", "raised", "ai_none"} => error = "SystemExit"

\* C14: compare_hands is a strict weak ordering over evaluator outputs:
\* compare_hands(a, b) = -compare_hands(b, a), compare_hands(a, a) = 0, and
\* a >= b and b >= c give a >= c, strictly when either premise is strict.
C14_StrictWeakOrder ==
    cmp_out # <<>> =>
        /\ \A i, j \in 1..3 : cmp_out[i][j] = 0 - cmp_out[j][i]
        /\ \A i \in 1..3 : cmp_out[i][i] = 0
        /\ \A i, j \in 1..3 : cmp_in[i] = cmp_in[j] => cmp_out[i][j] = 0
        /\ \A i, j, k \in 1..3 :
               (cmp_out[i][j] >= 0 /\ cmp_out[j][k] >= 0) =>
                   /\ cmp_out[i][k] >= 0
                   /\ (cmp_out[i][j] > 0 \/ cmp_out[j][k] > 0) => cmp_out[i][k] > 0

\* an equal pair followed by a strictly weaker evaluation of the same
\* category
C14_Witness ==
    /\ cmp_out # <<>>
    /\ cmp_out[1][2] = 0 /\ cmp_out[2][3] = 1 /\ cmp_out[3][1] = -1
    /\ cmp_in[2][1] = cmp_in[3][1]

\* the sign of x - y
Sign(x, y) == IF x > y THEN 1 ELSE IF x < y THEN -1 ELSE 0

\* C15: compare_hands orders by category first; with equal categories the
\* tiebreaks have the same length and the result is the ordering of their
\* first differing element from the left, and 0 only when all are equal.
C15_CategoryThenTiebreak ==
    cmp_out # <<>> =>
        \A i, j \in 1..3 :
            LET a == cmp_in[i]
                b == cmp_in[j]
            IN  /\ a[1] # b[1] => cmp_out[i][j] = Sign(a[1], b[1])
                /\ a[1] = b[1] =>
                     /\ Len(a[2]) = Len(b[2])
                     /\ \A k \in 1..Len(a[2]) :
                            (/\ a[2][k] # b[2][k]
                             /\ \A m \in 1..(k - 1) : a[2][m] = b[2][m])
                            => cmp_out[i][j] = Sign(a[2][k], b[2][k])
                     /\ (\A k \in 1..Len(a[2]) : a[2][k] = b[2][k])
                            => cmp_out[i][j] = 0
                /\ cmp_out[i][j] = 0 => a = b

\* equal categories and equal leading tiebreak elements, decided by a later
\* element; and a pair decided by the category against the tiebreak
C15_Witness ==
    /\ cmp_out # <<>>
    /\ cmp_in[1][1] = cmp_in[2][1]
    /\ cmp_in[1][2][1] = cmp_in[2][2][1]
    /\ cmp_in[1][2][Len(cmp_in[1][2])] < cmp_in[2][2][Len(cmp_in[2][2])]
    /\ cmp_out[1][2] = -1
    /\ cmp_in[3][1] > cmp_in[1][1] /\ cmp_in[3][2][1] < cmp_in[1][2][1]
    /\ cmp_out[3][1] = 1

\* C16: evaluate_7 returns the same category and tiebreak for every
\* permutation of the same 7 cards: the result for any arrangement is the
\* result for the cards in ascending order.
C16_OrderInvariant ==
    ev # NoEval => ev = evaluate_7(SeqAsc(Range(cards)))

\* a flush evaluated from cards passed with a low flush card first
C16_Witness ==
    /\ ev # NoEval
    /\ ev[1] = 5
    /\ cards # SeqAsc(Range(cards))
    /\ int_to_suit(cards[1]) = 3 /\ int_to_rank(cards[1]) = 2

\* the characters the contract names
RankChars == {"2", "3", "4", "5", "6", "7", "8", "9", "T", "J", "Q", "K", "A"}

RankCharsLower == {"t", "j", "q", "k", "a"}

SuitChars == {"c", "d", "h", "s"}

SuitCharsUpper == {"C", "D", "H", "S"}

\* a two-character token of a rank character in either case and a
\* lower-case suit letter
WellFormed(t) ==
    /\ Len(t) = 2
    /\ t[1] \in RankChars \cup RankCharsLower
    /\ t[2] \in SuitChars

\* the token with its rank in upper case
Canonical(t) ==
    <<CASE t[1] = "t" -> "T" [] t[1] = "j" -> "J" [] t[1] = "q" -> "Q"
        [] t[1] = "k" -> "K" [] t[1] = "a" -> "A" [] OTHER -> t[1],
      t[2]>>

\* C17: parsing and formatting round-trip: card_str_to_int(format_cards([c]))
\* = c for every card, format_cards([card_str_to_int(t)]) is t in canonical
\* case for every well-formed token, and parse_cards_str(format_cards(cards))
\* = cards for every list of cards.
C17_RoundTrip ==
    /\ tout.op = "card" => (tout.err = None /\ tout.cards = tin.cards)
    /\ (tout.op = "token" /\ WellFormed(tin.text)) =>
           (tout.err = None /\ tout.text = Canonical(tin.text))
    /\ tout.op = "format" => (tout.err = None /\ tout.cards = tin.cards)

\* a list of three cards, not all alike, formatted and parsed back
C17_Witness ==
    /\ tout.op = "format"
    /\ Len(tin.cards) = 3
    /\ tin.cards[1] # tin.cards[2]
    /\ Len(tout.text) = 8

\* C18 as stated: card_str_to_int accepts exactly the two-character tokens
\* of a rank character in either case and a suit letter c, d, h, s, and
\* fails on every other token.
C18_AcceptsExactly ==
    tout.op = "token" =>
        /\ tout.err = None <=> WellFormed(tin.text)
        /\ tout.err # None => tout.err = "ValueError"

\* the text without its leading and trailing white space is the two
\* characters x, y
StripsTo(t, x, y) ==
    \E i \in 1..(Len(t) - 1) :
        /\ t[i] = x /\ t[i + 1] = y
        /\ x \notin Whitespace /\ y \notin Whitespace
        /\ \A j \in 1..Len(t) : (j < i \/ j > i + 1) => t[j] \in Whitespace

\* C18 amended: card_str_to_int strips surrounding white space and accepts
\* exactly the two-character tokens of a rank character in either case and
\* a suit letter c, d, h, s in either case; every other token fails with
\* ValueError.
C18_AcceptsStrippedAnyCase ==
    tout.op = "token" =>
        /\ tout.err = None <=>
               \E x \in RankChars \cup RankCharsLower,
                  y \in SuitChars \cup SuitCharsUpper : StripsTo(tin.text, x, y)
        /\ tout.err # None => tout.err = "ValueError"

\* an upper-case suit letter behind white space is accepted
C18_Witness ==
    /\ tout.op = "token"
    /\ tout.err = None
    /\ Len(tin.text) = 3
    /\ tin.text[1] \in Whitespace
    /\ tin.text[3] = "S"

\* the maximal runs of characters of t that are neither white space nor a
\* comma, as pairs of first and last position
Runs(t) ==
    {ij \in (1..Len(t)) \X (1..Len(t)) :
        /\ ij[1] <= ij[2]
        /\ \A k \in ij[1]..ij[2] : t[k] \notin Whitespace \cup {","}
        /\ ij[1] = 1 \/ t[ij[1] - 1] \in Whitespace \cup {","}
        /\ ij[2] = Len(t) \/ t[ij[2] + 1] \in Whitespace \cup {","}}

\* the k-th run from the left
RunAt(t, k) ==
    LET ij == CHOOSE r \in Runs(t) :
                  Cardinality({q \in Runs(t) : q[1] < r[1]}) = k - 1
    IN  SubSeq(t, ij[1], ij[2])

\* C19: parse_cards_str splits on white space and commas, ignores the empty
\* tokens of repeated delimiters (a blank input gives the empty list),
\* returns the parsed tokens in input order, and fails with the error of the
\* first malformed token without a partial list.
C19_SplitAndParse ==
    tout.op = "list" =>
        LET n == Cardinality(Runs(tin.text))
            bad == {k \in 1..n : ~card_str_to_int(RunAt(tin.text, k)).ok}
        IN  IF bad = {}
            THEN /\ tout.err = None
                 /\ Len(tout.cards) = n
                 /\ \A k \in 1..n :
                        tout.cards[k] = card_str_to_int(RunAt(tin.text, k)).val
            ELSE /\ tout.err = "ValueError"
                 /\ tout.cards = <<>>
                 /\ \E k \in bad :
                        /\ \A m \in bad : k <= m
                        /\ tout.tok = RunAt(tin.text, k)

\* two different cards separated by a comma, returned in input order
C19_Witness ==
    /\ tout.op = "list"
    /\ tout.err = None
    /\ Len(tout.cards) = 2
    /\ tout.cards[1] # tout.cards[2]
    /\ tin.text[3] = ","

\* C20: the card encoding is a bijection between 0..51 and the pairs
\* (rank, suit) with rank in 2..14 and suit in 0..3: the decoders stay in
\* range, c = suit*13 + (rank - 2), and different cards decode differently.
C20_Bijection ==
    tout.op = "decode" =>
        LET c1 == tin.cards[1]
            c2 == tin.cards[2]
            r1 == tout.cards[1]
            s1 == tout.cards[2]
            r2 == tout.cards[3]
            s2 == tout.cards[4]
        IN  /\ r1 \in 2..14 /\ s1 \in 0..3
            /\ c1 = s1 * 13 + (r1 - 2)
            /\ c1 # c2 => <<r1, s1>> # <<r2, s2>>
            /\ \A r \in 2..14, u \in 0..3 :
                   \E c \in 0..51 : int_to_rank(c) = r /\ int_to_suit(c) = u

\* two cards of the same rank index modulo 12 in different suits
C20_Witness ==
    /\ tout.op = "decode"
    /\ tin.cards = <<12, 24>>
    /\ tout.cards = <<14, 0, 13, 1>>

\* simulate_equity has been entered and has computed its remaining deck
Entered == pc \in {"loop", "opps", "acc", "returned", "raised", "printed",
                   "ai_percent"}

\* C21: deck_without(known) holds every card of 0..51 that is not in known,
\* each exactly once, in ascending order, and no card of known; its length is
\* 52 minus the number of distinct known cards.
C21_RemainingDeck ==
    Entered =>
        LET known == Range(req.hero \o req.board)
        IN  /\ \A c \in (0..51) \ known :
                   Cardinality({i \in 1..Len(base_deck) : base_deck[i] = c}) = 1
            /\ \A i \in 1..Len(base_deck) :
                   base_deck[i] \in (0..51) \ known
            /\ \A i, j \in 1..Len(base_deck) :
                   i < j => base_deck[i] < base_deck[j]
            /\ Len(base_deck) = 52 - Cardinality(known)

\* a known list that names one card twice next to three board cards
C21_Witness ==
    /\ Entered
    /\ Len(req.hero) = 2 /\ req.hero[1] = req.hero[2]
    /\ Len(req.board) = 3
    /\ Len(base_deck) = 49

\* main has got past its validation and its simulate_equity call has ended
MainEnded == entry = "main" /\ pc \in {"raised", "printed"}

\* C22: the confidence-interval computation guards division by zero: for
\* n = 0 no division is performed and the degenerate interval (0, 0) is
\* produced; for n > 0 the interval satisfies 0 <= low <= p <= high <= 1.
C22_IntervalGuarded ==
    MainEnded =>
        /\ error # "ZeroDivisionError"
        /\ req.iterations = 0 => (pc = "printed" /\ report = NoReport)
        /\ (pc = "printed" /\ req.iterations > 0) =>
               \A k \in {"win", "eq"} :
                   LET p == IF k = "win" THEN result.win_rate ELSE result.equity
                       iv == IF k = "win" THEN report.win ELSE report.eq
                   IN  /\ 0 <= iv[1]
                       /\ iv[1] * p[2] <= p[1] * CiScale
                       /\ p[1] * CiScale <= iv[2] * p[2] + p[2]
                       /\ iv[2] <= CiScale

\* C23: in every iteration (hero of 2 cards, board of 0..5) each opponent
\* holds exactly 2 cards, the contiguous pairs of the first n_opponents*2
\* drawn cards, the remaining drawn cards complete the board to exactly 5,
\* and the hero and every opponent are evaluated on exactly 7 cards against
\* the same completed board.
C23_Deal ==
    (pc \in {"opps", "acc"} /\ Len(req.hero) = 2 /\ Len(req.board) <= 5) =>
        LET n == req.n_opponents
            rest == [k \in 1..(Len(draw) - 2 * n) |-> draw[2 * n + k]]
            completed == req.board \o rest
        IN  /\ Len(draw) = 2 * n + (5 - Len(req.board))
            /\ Len(completed) = 5
            /\ full_board(req, draw) = completed
            /\ hero_eval = evaluate_7(req.hero \o completed)
            /\ Len(req.hero \o completed) = 7
            /\ \A i \in 0..(n - 1) :
                   /\ opp_cards(draw, i) = <<draw[2 * i + 1], draw[2 * i + 2]>>
                   /\ Len(opp_cards(draw, i) \o completed) = 7
                   /\ OppEval(i) = evaluate_7(<<draw[2 * i + 1], draw[2 * i + 2]>>
                                              \o completed)

\* two opponents on the flop: four hole cards and two board cards are drawn
C23_Witness ==
    /\ pc = "acc"
    /\ req.n_opponents = 2
    /\ Len(req.board) = 3
    /\ Len(draw) = 6
    /\ oi = 2

\* a step of the loop keeps the setup and draws from the whole remaining deck
IterationStep ==
    pc \in {"loop", "opps", "acc"} =>
        /\ base_deck' = base_deck
        /\ req' = req
        /\ base_deck' = deck_without(req.hero \o req.board)
        /\ draw' # draw =>
               \A k \in 1..Len(draw') :
                   \E i \in 1..Len(base_deck') : base_deck'[i] = draw'[k]

\* C24: every iteration draws from the same precomputed remaining deck: an
\* iteration leaves the remaining deck, the hero cards and the known board
\* unchanged, and each draw is taken from the whole remaining deck, so cards
\* dealt in one iteration are available again in the next.
C24_SameDeckEveryIteration == [][IterationStep]_vars

\* the second iteration deals a card that the first iteration dealt
C24_Witness ==
    /\ pc \in {"opps", "acc"}
    /\ done = 1
    /\ Len(base_deck) = 52 - Len(req.hero \o req.board)
    /\ Range(draw) \cap
           Range(random_sample(Seeded(rng0, req.seed), base_deck, need_cards)[1])
       # {}

\* C25: a seeded call whose iterations are interleaved with another seeded
\* call returns the result it returns when it runs alone with that seed.
C25_InterleavedSameResult ==
    (pc = "returned" /\ ref.later /\ ref.req = req /\ other.pc # "idle") =>
        result = ref.result

\* the bit positions h-4..h are all set
RunEndingAt(bits, h) == \A r \in (h - 4)..h : r \in bits

\* C26: straight_high_from_ranks_mask returns the largest h in 5..14 whose
\* bits h, h-1, h-2, h-3, h-4 are all set, and 0 when there is none; when
\* bit 1 is set only with rank 14, A-2-3-4-5 is a straight with high card 5
\* and no run that wraps around the ace is a straight.
C26_StraightHigh ==
    tout.op = "mask" =>
        LET bits == Range(tin.cards)
            ranks == bits \cap (2..14)
            high == tout.cards[1]
        IN  /\ high \in {0} \cup (5..14)
            /\ high # 0 => RunEndingAt(bits, high)
            /\ \A h \in 5..14 : RunEndingAt(bits, h) => high >= h
            /\ (1 \in bits <=> 14 \in bits) =>
                   /\ high >= 6 => RunEndingAt(ranks, high)
                   /\ high = 5 => {14, 2, 3, 4, 5} \subseteq ranks
                   /\ {14, 2, 3, 4, 5} \subseteq ranks => high >= 5
                   /\ ranks \in {{12, 13, 14, 2, 3}, {13, 14, 2, 3, 4},
                                 {11, 12, 13, 14, 2}} => high = 0

\* the wheel next to a higher run that is one rank short
C26_Witness ==
    /\ tout.op = "mask"
    /\ tin.cards = <<1, 2, 3, 4, 5, 11, 12, 13, 14>>
    /\ tout.cards = <<5>>

\* how many of the 7 cards have rank r, and how many have suit s
RankCount(r) == Cardinality({i \in 1..Len(cards) : int_to_rank(cards[i]) = r})

SuitCount(s) == Cardinality({i \in 1..Len(cards) : int_to_suit(cards[i]) = s})

QuadRanks == {r \in 2..14 : RankCount(r) = 4}

TripRanks == {r \in 2..14 : RankCount(r) = 3}

PairRanks == {r \in 2..14 : RankCount(r) = 2}

PresentRanks == {r \in 2..14 : RankCount(r) > 0}

FlushSuits == {s \in 0..3 : SuitCount(s) >= 5}

\* the n largest members of S, in descending order
RECURSIVE HighestN(_, _)
HighestN(S, n) ==
    IF n = 0 \/ S = {} THEN <<>>
    ELSE LET m == CHOOSE x \in S : \A y \in S : y <= x
         IN  <<m>> \o HighestN(S \ {m}, n - 1)

\* S holds five consecutive ranks, the ace counting as 1 as well
HoldsStraight(S) ==
    \E h \in 5..14 :
        \A r \in (h - 4)..h : (IF r = 1 THEN 14 ELSE r) \in S

\* C27: with a three-of-a-kind and no four-of-a-kind or straight flush,
\* evaluate_7 returns category 6 exactly when there is a second
\* three-of-a-kind or a pair, with tiebreak (highest trip, second trip) for
\* two trips and (trip, highest pair) otherwise.
C27_FullHouse ==
    (ev # NoEval /\ TripRanks # {} /\ QuadRanks = {} /\ ev[1] # 8) =>
        /\ ev[1] = 6 <=> (Cardinality(TripRanks) >= 2 \/ PairRanks # {})
        /\ ev[1] = 6 =>
               ev[2] = IF Cardinality(TripRanks) >= 2
                       THEN HighestN(TripRanks, 2)
                       ELSE HighestN(TripRanks, 1) \o HighestN(PairRanks, 1)

\* two trips: the higher one leads and the lower one fills the house
C27_Witness ==
    /\ ev # NoEval
    /\ Cardinality(TripRanks) = 2
    /\ ev[1] = 6
    /\ ev[2][1] = 14
    /\ ev[2][2] \in TripRanks

\* some suit holds five cards of consecutive ranks
HoldsStraightFlush ==
    \E s \in FlushSuits :
        HoldsStraight({int_to_rank(cards[i]) :
                          i \in {j \in 1..Len(cards) : int_to_suit(cards[j]) = s}})

\* the categories the 7 cards qualify for
Qualified ==
    {0}
    \cup (IF PairRanks \cup TripRanks \cup QuadRanks # {} THEN {1} ELSE {})
    \cup (IF Cardinality(PairRanks \cup TripRanks \cup QuadRanks) >= 2
          THEN {2} ELSE {})
    \cup (IF TripRanks \cup QuadRanks # {} THEN {3} ELSE {})
    \cup (IF HoldsStraight(PresentRanks) THEN {4} ELSE {})
    \cup (IF FlushSuits # {} THEN {5} ELSE {})
    \cup (IF /\ TripRanks \cup QuadRanks # {}
             /\ Cardinality(PairRanks \cup TripRanks \cup QuadRanks) >= 2
          THEN {6} ELSE {})
    \cup (IF QuadRanks # {} THEN {7} ELSE {})
    \cup (IF HoldsStraightFlush THEN {8} ELSE {})

\* C28: evaluate_7 returns the highest category the 7 cards qualify for; a
\* hand with five or more cards of one suit and no straight within that
\* suit is category 5 with the five highest ranks of that suit in descending
\* order, also with 6 or 7 suited cards and with pairs, trips or a
\* mixed-suit straight; category 8 only for five consecutive ranks in the
\* flush suit.
C28_HighestCategory ==
    ev # NoEval =>
        /\ ev[1] \in Qualified
        /\ \A c \in Qualified : c <= ev[1]
        /\ ev[1] = 8 <=> HoldsStraightFlush
        /\ (FlushSuits # {} /\ ~HoldsStraightFlush) =>
               \E s \in FlushSuits :
                   ev = <<5, HighestN({int_to_rank(cards[i]) :
                                 i \in {j \in 1..Len(cards) :
                                           int_to_suit(cards[j]) = s}}, 5)>>

\* five cards of one suit without a straight among them, in a hand that
\* also holds a mixed-suit straight and a pair
C28_Witness ==
    /\ ev # NoEval
    /\ FlushSuits # {}
    /\ HoldsStraight(PresentRanks)
    /\ PairRanks # {}
    /\ ev[1] = 5

\* C29: in categories 3, 2 and 1 the kickers are the highest ranks present
\* other than the ranks of the made trip or pairs; with three pairs the
\* result is (2, (p1, p2, k)) with p1 > p2 the two highest pairs and k the
\* larger of the third pair's rank and the single card's rank.
C29_Kickers ==
    ev # NoEval =>
        /\ ev[1] = 3 =>
               ev[2] = HighestN(TripRanks, 1)
                       \o HighestN(PresentRanks \ TripRanks, 2)
        /\ ev[1] = 2 =>
               ev[2] = HighestN(PairRanks, 2)
                       \o HighestN(PresentRanks
                                       \ Range(HighestN(PairRanks, 2)), 1)
        /\ ev[1] = 1 =>
               ev[2] = HighestN(PairRanks, 1)
                       \o HighestN(PresentRanks \ PairRanks, 3)
        /\ (ev[1] = 2 /\ Cardinality(PairRanks) = 3) =>
               \E p3 \in PairRanks, k \in PresentRanks \ PairRanks :
                   /\ \A p \in PairRanks : p3 <= p
                   /\ ev[2][3] = IF p3 > k THEN p3 ELSE k

\* three pairs whose lowest pair outranks the single card and is the kicker
C29_Witness ==
    /\ ev # NoEval
    /\ ev[1] = 2
    /\ Cardinality(PairRanks) = 3
    /\ ev[2][3] \in PairRanks
    /\ \A k \in PresentRanks \ PairRanks : k < ev[2][3]

\* the tiebreak length of each category
TiebreakLen == <<5, 4, 3, 3, 1, 5, 2, 2, 1>>

\* C30: for 7 distinct cards evaluate_7 returns a category in 0..8 and a
\* tiebreak of the length fixed by the category (8:1, 7:2, 6:2, 5:5, 4:1,
\* 3:3, 2:3, 1:4, 0:5) whose elements are ranks in 2..14 (a straight high
\* card in 5..14); no index or empty-max error occurs and at most one suit
\* has five or more cards.
C30_WellFormedEvaluation ==
    ev # NoEval =>
        /\ ev # EvalError
        /\ ev[1] \in 0..8
        /\ Len(ev[2]) = TiebreakLen[ev[1] + 1]
        /\ \A k \in 1..Len(ev[2]) : ev[2][k] \in 2..14
        /\ ev[1] \in {4, 8} => ev[2][1] \in 5..14
        /\ Cardinality(FlushSuits) <= 1

\* seven cards of one suit: five of the seven ranks make the tiebreak
C30_Witness ==
    /\ ev # NoEval
    /\ \E s \in 0..3 : SuitCount(s) = 7
    /\ ev[1] = 5
    /\ Len(ev[2]) = 5

====
